---------------------------- MODULE Spec2Model ----------------------------
(***************************************************************************)
(* The loan lifecycle and amortization engine of sacco_app                 *)
(* (src/modules/loans.py, LoansModule) over its record store               *)
(* (src/db_manager.py, DBManager).                                         *)
(*                                                                         *)
(* Money is held in integer cents; a value the code computes as a float    *)
(* quotient is carried as an exact fraction num/den until the code rounds  *)
(* it with round(x, 2).  Dates are day numbers (ISO strings of 4-digit     *)
(* years order the same way); NULL / None is the value None.               *)
(***************************************************************************)
EXTENDS Integers, Sequences, FiniteSets, TLC

VARIABLES
    loanTypes,   \* LoanTypesTbl rows, in LoanTypeID order
    loans,       \* LoansTbl rows, in LoanID order
    schedule,    \* LoanRepaymentScheduleTbl rows, in ScheduleID order
    ledger,      \* LedgerTbl rows, in EntryID order
    today,       \* what date.today() returns
    ret,         \* the last engine call: its name, arguments and outcome
    calls        \* per session, the record_payment call it is in the middle of

vars == <<loanTypes, loans, schedule, ledger, today, ret, calls>>

-----------------------------------------------------------------------------
(* Bounds of the model and the inputs the operations are called with.      *)

MaxLoans == 1
MaxPayments == 2
MaxSchedId == 2
FirstDay == 40

\* LoanAmount inputs, in cents: 400.00 and 10.00.
LoanAmounts == {40000, 1000}
\* LoanType inputs: two seeded products (5% over 4 months, 10% over 24) and
\* a name the catalog does not hold.
LoanTypeInputs == {"Emergency", "Major", "NoSuchType"}
LoanMethods == {"Flat", "Reduce"}
\* StartDate inputs: with today = FirstDay the first installment of a loan
\* started on day 1 is past due and the later ones are not.
StartDates == {1}
\* Payment amounts in cents besides the entry's own AmountDue.
PayAmounts == {-500, 0, 500}

-----------------------------------------------------------------------------
(* The record store.                                                       *)

\* SQL NULL, Python None.  No AUTOINCREMENT id and no day number is 0.
None == 0

\* DBManager.insert executes and commits the INSERT and returns nothing:
\* the caller's "loan_id = self.db.insert(...)" binds None.
DBInsertReturn(rowid) == None

\* The id AUTOINCREMENT gives the next row of a table no row was deleted from.
NextId(table) == Len(table) + 1

\* DBManager.fetch_all(table, "<col>=?", (v,)): the matching rows, in order.
FetchAll(table, col, v) == SelectSeq(table, LAMBDA r : r[col] = v)

\* DBManager.update(table, data, "<col>=?", (v,)): every matching row gets
\* the fields of data; no matching row is no error.
Update(table, data, col, v) ==
    [k \in 1..Len(table) |->
        IF table[k][col] = v
        THEN [f \in DOMAIN table[k] |->
                 IF f \in DOMAIN data THEN data[f] ELSE table[k][f]]
        ELSE table[k]]

-----------------------------------------------------------------------------
(* Arithmetic.                                                             *)

\* round(num/den, 2) of a value in cents: to the nearest cent, a tie to the
\* even cent (Python 3 round), taken on the exact value.  The code rounds the
\* binary float; the two agree on every amount, rate and duration the
\* operations are called with here.
RoundCents(num, den) ==
    LET n == IF den < 0 THEN -num ELSE num
        d == IF den < 0 THEN -den ELSE den
        q == n \div d
        r == n % d
    IN  IF 2 * r < d THEN q
        ELSE IF 2 * r > d THEN q + 1
        ELSE IF q % 2 = 0 THEN q ELSE q + 1

\* sum(...) over a sequence of integers.
RECURSIVE Sum(_)
Sum(s) == IF s = <<>> THEN 0 ELSE Head(s) + Sum(Tail(s))

\* The values of one column of a sequence of rows.
Column(rows, col) == [k \in 1..Len(rows) |-> rows[k][col]]

Abs(x) == IF x < 0 THEN -x ELSE x

-----------------------------------------------------------------------------
(* The loan type catalog.                                                  *)

\* The defaults of seed_default_loan_types: (name, rate in percent, months).
Defaults ==
    << <<"Major", 10, 24>>,
       <<"Car", 15, 36>>,
       <<"Electronics", 10, 18>>,
       <<"Land", 10, 24>>,
       <<"Essential Commodities", 10, 12>>,
       <<"Education", 10, 6>>,
       <<"Emergency", 5, 4>> >>

\* A slip in the seeding: a default whose name is present is written over
\* the row that holds it.
RECURSIVE SeedFromOverwriting(_, _, _)
SeedFromOverwriting(catalog, existing, k) ==
    IF k > Len(Defaults) THEN catalog
    ELSE IF Defaults[k][1] \in existing
         THEN SeedFromOverwriting(
                  Update(catalog,
                         [InterestRate |-> Defaults[k][2],
                          DurationMonths |-> Defaults[k][3],
                          Active |-> 1],
                         "LoanName", Defaults[k][1]),
                  existing, k + 1)
         ELSE SeedFromOverwriting(
                  Append(catalog,
                         [LoanTypeID |-> NextId(catalog),
                          LoanName |-> Defaults[k][1],
                          InterestRate |-> Defaults[k][2],
                          DurationMonths |-> Defaults[k][3],
                          Active |-> 1]),
                  existing, k + 1)

\* seed_default_loan_types: the names present are read once, then each
\* default whose name is not among them is inserted, Active.
RECURSIVE SeedFrom(_, _, _)
SeedFrom(catalog, existing, k) ==
    IF k > Len(Defaults) THEN catalog
    ELSE IF Defaults[k][1] \in existing
         THEN SeedFrom(catalog, existing, k + 1)
         ELSE SeedFrom(Append(catalog,
                              [LoanTypeID |-> NextId(catalog),
                               LoanName |-> Defaults[k][1],
                               InterestRate |-> Defaults[k][2],
                               DurationMonths |-> Defaults[k][3],
                               Active |-> 1]),
                       existing, k + 1)

SeedDefaultLoanTypes(catalog) ==
    SeedFrom(catalog, {catalog[k].LoanName : k \in 1..Len(catalog)}, 1)

\* A slip in the lookup's condition: "LoanName=?" alone.
ProductsOfAnyFlag(name) ==
    SelectSeq(loanTypes, LAMBDA r : r.LoanName = name)

\* create_loan's lookup: fetch_all(LOAN_TYPES_TABLE, "LoanName=? AND Active=1").
ActiveProducts(name) ==
    SelectSeq(loanTypes, LAMBDA r : r.LoanName = name /\ r.Active = 1)

-----------------------------------------------------------------------------
(* Interest and the repayment schedule.  principal is in cents, ratePct the *)
(* product's InterestRate (create_loan divides it by 100), so a value in    *)
(* cents is a fraction num/den of these integers.                           *)

\* The fixed period of generate_schedule: timedelta(days=30 * (i + 1)).
PeriodDays == 30

\* create_loan, Reduce: sum((principal - (principal / months) * i) * rate / 12
\* for i in range(months)), as a fraction over 1200 * months.
RECURSIVE ReduceInterestNum(_, _, _, _)
ReduceInterestNum(principal, ratePct, months, i) ==
    IF i >= months THEN 0
    ELSE (principal * months - principal * i) * ratePct
         + ReduceInterestNum(principal, ratePct, months, i + 1)

\* create_loan: round(principal + total_interest, 2).
\* Flat: total_interest = principal * rate * (months / 12).
TotalPayable(principal, ratePct, months, method) ==
    IF method = "Flat"
    THEN RoundCents(1200 * principal + principal * ratePct * months, 1200)
    ELSE IF months <= 0
         THEN principal     \* range(months) is empty: total_interest = 0
         ELSE RoundCents(1200 * months * principal
                         + ReduceInterestNum(principal, ratePct, months, 0),
                         1200 * months)

\* A slip in the divisor: the principal spread over a year whatever the term.
MonthlyPrincipalOverYear(principal, months) == [num |-> principal, den |-> 12]

\* generate_schedule: monthly_principal = principal / months.
MonthlyPrincipal(principal, months) == [num |-> principal, den |-> months]

\* A slip in the order: "remaining -= monthly_principal" ahead of the
\* interest of the installment.
RemainingAfter(principal, months, i) ==
    [num |-> principal * months - principal * (i + 1), den |-> months]

\* generate_schedule: remaining before installment i, after i times
\* "remaining -= monthly_principal", as a fraction over months.
RECURSIVE Remaining(_, _, _)
Remaining(principal, months, i) ==
    IF i = 0 THEN [num |-> principal * months, den |-> months]
    ELSE [num |-> Remaining(principal, months, i - 1).num - principal,
          den |-> months]

\* generate_schedule: the interest of installment i.
\* Flat: (principal * rate) / months.  Reduce: remaining * rate / 12.
Interest(principal, ratePct, months, method, i) ==
    IF method = "Flat"
    THEN [num |-> principal * ratePct, den |-> 100 * months]
    ELSE [num |-> Remaining(principal, months, i).num * ratePct,
          den |-> 1200 * months]

\* generate_schedule: amount_due = monthly_principal + interest, unrounded.
AmountDue(principal, ratePct, months, method, i) ==
    LET mp == MonthlyPrincipal(principal, months)
        it == Interest(principal, ratePct, months, method, i)
    IN  [num |-> mp.num * (it.den \div mp.den) + it.num, den |-> it.den]

\* The row generate_schedule hands to insert for installment i; ScheduleID,
\* AmountPaid and Status are the table's AUTOINCREMENT and DEFAULTs.
ScheduleRow(sid, loan_id, principal, ratePct, months, start, method, i) ==
    LET mp == MonthlyPrincipal(principal, months)
        it == Interest(principal, ratePct, months, method, i)
        ad == AmountDue(principal, ratePct, months, method, i)
    IN  [ScheduleID |-> sid,
         LoanID |-> loan_id,
         DueDate |-> start + PeriodDays * (i + 1),
         Principal |-> RoundCents(mp.num, mp.den),
         Interest |-> RoundCents(it.num, it.den),
         AmountDue |-> RoundCents(ad.num, ad.den),
         AmountPaid |-> 0,
         Status |-> "Pending"]

\* A slip in the table: LoanID declared without NOT NULL, so the rows of a
\* call with loan_id None are stored.
GenerateScheduleNullable(table, loan_id, principal, ratePct, months, start, method) ==
    IF months = 0
    THEN [table |-> table, outcome |-> "ZeroDivisionError"]
    ELSE IF months < 0
    THEN [table |-> table, outcome |-> "ok"]
    ELSE [table |-> table \o
                    [i \in 1..months |->
                        ScheduleRow(Len(table) + i, loan_id, principal, ratePct,
                                    months, start, method, i - 1)],
          outcome |-> "ok"]

\* generate_schedule, whole: the table it leaves and how it ended.
\* principal / months raises ZeroDivisionError for months = 0; the INSERT of
\* a row whose LoanID is None raises IntegrityError (LoanID INTEGER NOT NULL)
\* with the rows before it committed; range(months) is empty for months < 0.
GenerateSchedule(table, loan_id, principal, ratePct, months, start, method) ==
    IF months = 0
    THEN [table |-> table, outcome |-> "ZeroDivisionError"]
    ELSE IF months < 0
    THEN [table |-> table, outcome |-> "ok"]
    ELSE IF loan_id = None
    THEN [table |-> table, outcome |-> "IntegrityError"]
    ELSE [table |-> table \o
                    [i \in 1..months |->
                        ScheduleRow(Len(table) + i, loan_id, principal, ratePct,
                                    months, start, method, i - 1)],
          outcome |-> "ok"]

-----------------------------------------------------------------------------
(* The engine's operations.                                                *)

\* What the caller of an operation gets: "ok", "warning" (a QMessageBox and
\* a plain return) or the name of the exception raised; with it, the id and
\* the amount of a call that reached the store.
Ret(op, outcome, id, amount) ==
    [op |-> op, outcome |-> outcome, id |-> id, amount |-> amount,
     balance |-> 0, arrears |-> 0]

\* The application instances open on the database file (each a Dashboard
\* with its own DBManager connection), and what a session holds between the
\* fetch and the update of a record_payment: the call's arguments and the
\* row it fetched.  A session in no call holds Idle.
Sessions == {1, 2}
Idle == [schedule_id |-> None, amount |-> 0, AmountPaid |-> 0, AmountDue |-> 0]

\* LoansModule.__init__ on a new database: the tables are created empty and
\* the defaults are seeded.
Init ==
    /\ loanTypes = SeedDefaultLoanTypes(<<>>)
    /\ loans = <<>>
    /\ schedule = <<>>
    /\ ledger = <<>>
    /\ today = FirstDay
    /\ ret = Ret("init", "ok", None, 0)
    /\ calls = [p \in Sessions |-> Idle]

\* LoansModule.__init__ on the database as it is (the application started
\* again): ensure_tables finds the tables, seed_default_loan_types runs.
Reopen ==
    /\ loanTypes' = SeedDefaultLoanTypes(loanTypes)
    /\ ret' = Ret("init", "ok", None, 0)
    /\ UNCHANGED <<loans, schedule, ledger, today, calls>>

\* Dashboard.inline_update on a cell of LoanTypesTbl: the row whose LoanTypeID
\* is pk_value gets value in column col_name.  Renaming to a name another row
\* holds violates LoanName UNIQUE: the IntegrityError is caught and shown as
\* a warning.
InlineUpdate(pk_value, col_name, value) ==
    IF /\ col_name = "LoanName"
       /\ FetchAll(loanTypes, "LoanTypeID", pk_value) # <<>>
       /\ \E k \in 1..Len(loanTypes) :
             /\ loanTypes[k].LoanName = value
             /\ loanTypes[k].LoanTypeID # pk_value
    THEN /\ ret' = Ret("inline_update", "warning", None, 0)
         /\ UNCHANGED <<loanTypes, loans, schedule, ledger, today, calls>>
    ELSE /\ loanTypes' = Update(loanTypes, (col_name :> value),
                                "LoanTypeID", pk_value)
         /\ ret' = Ret("inline_update", "ok", pk_value, 0)
         /\ UNCHANGED <<loans, schedule, ledger, today, calls>>

\* TableForm.save_record in add mode on LoanTypesTbl (open_loan_types_admin):
\* data is what collect_data reads off the widgets, LoanTypeID included.  A
\* LoanTypeID or LoanName the table already holds violates PRIMARY KEY or
\* UNIQUE: the IntegrityError is caught and shown.  Nothing checks
\* InterestRate or DurationMonths; a QSpinBox starts at 0.
SaveRecord(data) ==
    IF \E t \in 1..Len(loanTypes) :
          \/ loanTypes[t].LoanTypeID = data.LoanTypeID
          \/ loanTypes[t].LoanName = data.LoanName
    THEN /\ ret' = Ret("save_record", "warning", None, 0)
         /\ UNCHANGED <<loanTypes, loans, schedule, ledger, today, calls>>
    ELSE /\ loanTypes' = Append(loanTypes, data)
         /\ ret' = Ret("save_record", "ok", data.LoanTypeID, 0)
         /\ UNCHANGED <<loans, schedule, ledger, today, calls>>

\* TableForm.delete_record on the LoanTypesTbl row the form was opened for
\* (open_loan_types_admin hands its argument to TableForm as the record),
\* after the confirmation: DBManager.delete by the first column.
DeleteRecord(pk_value) ==
    /\ FetchAll(loanTypes, "LoanTypeID", pk_value) # <<>>
    /\ loanTypes' = SelectSeq(loanTypes, LAMBDA r : r.LoanTypeID # pk_value)
    /\ ret' = Ret("delete_record", "ok", pk_value, 0)
    /\ UNCHANGED <<loans, schedule, ledger, today, calls>>

\* The LoansTbl row create_loan inserts; Status and DisbursementDate are the
\* table's DEFAULTs.
LoanRow(id, loan_data, product, method) ==
    [LoanID |-> id,
     LoanType |-> loan_data.LoanType,
     LoanAmount |-> loan_data.LoanAmount,
     InterestRate |-> product.InterestRate,
     DurationMonths |-> product.DurationMonths,
     StartDate |-> loan_data.StartDate,
     TotalPayable |-> TotalPayable(loan_data.LoanAmount, product.InterestRate,
                                   product.DurationMonths, method),
     Status |-> "Active",
     ApprovalStatus |-> "Pending",
     DisbursementDate |-> None,
     LoanMethod |-> method]

\* create_loan(loan_data).
CreateLoan(loan_data) ==
    LET product == ActiveProducts(loan_data.LoanType)
        method == loan_data.LoanMethod
    IN  IF product = <<>>
        THEN /\ ret' = Ret("create_loan", "warning", None, 0)
             /\ UNCHANGED <<loanTypes, loans, schedule, ledger, today, calls>>
        ELSE LET rowid == NextId(loans)
                 loan_id == DBInsertReturn(rowid)
                 gen == GenerateSchedule(schedule, loan_id,
                            loan_data.LoanAmount, product[1].InterestRate,
                            product[1].DurationMonths, loan_data.StartDate,
                            method)
             IN  /\ Len(loans) < MaxLoans
                 /\ loans' = Append(loans,
                                LoanRow(rowid, loan_data, product[1], method))
                 /\ schedule' = gen.table
                 /\ ret' = Ret("create_loan", gen.outcome, rowid, 0)
                 /\ UNCHANGED <<loanTypes, ledger, today, calls>>

\* generate_schedule(loan_id, ...) called on its own for a stored loan that
\* has no entries yet, with the arguments create_loan computes for it.
GenerateScheduleFor(loan_id) ==
    LET loan == loans[loan_id]
        gen == GenerateSchedule(schedule, loan_id, loan.LoanAmount,
                   loan.InterestRate, loan.DurationMonths, loan.StartDate,
                   loan.LoanMethod)
    IN  /\ FetchAll(schedule, "LoanID", loan_id) = <<>>
        /\ schedule' = gen.table
        /\ ret' = Ret("generate_schedule", gen.outcome, loan_id, 0)
        /\ UNCHANGED <<loanTypes, loans, ledger, today, calls>>

\* A slip in the permission check: the warning is shown and the call goes on
\* to the update instead of returning.
ApproveLoanNoReturn(loan_id, allowed) ==
    /\ loans' = Update(loans, [ApprovalStatus |-> "Approved"],
                       "LoanID", loan_id)
    /\ ret' = IF allowed THEN Ret("approve_loan", "ok", loan_id, 0)
                         ELSE Ret("approve_loan", "warning", None, 0)
    /\ UNCHANGED <<loanTypes, schedule, ledger, today, calls>>

\* A slip in the update: the approval works as a toggle, and approving an
\* Approved loan puts it back to Pending.
ApproveLoanToggling(loan_id, allowed) ==
    IF ~allowed
    THEN /\ ret' = Ret("approve_loan", "warning", None, 0)
         /\ UNCHANGED <<loanTypes, loans, schedule, ledger, today, calls>>
    ELSE /\ loans' = [k \in 1..Len(loans) |->
                        IF loans[k].LoanID # loan_id THEN loans[k]
                        ELSE [loans[k] EXCEPT !.ApprovalStatus =
                                 IF @ = "Approved" THEN "Pending"
                                                   ELSE "Approved"]]
         /\ ret' = Ret("approve_loan", "ok", loan_id, 0)
         /\ UNCHANGED <<loanTypes, schedule, ledger, today, calls>>

\* approve_loan(loan_id, permissions); allowed is permissions.get("Approve", 0).
ApproveLoan(loan_id, allowed) ==
    IF ~allowed
    THEN /\ ret' = Ret("approve_loan", "warning", None, 0)
         /\ UNCHANGED <<loanTypes, loans, schedule, ledger, today, calls>>
    ELSE /\ loans' = Update(loans, [ApprovalStatus |-> "Approved"],
                            "LoanID", loan_id)
         /\ ret' = Ret("approve_loan", "ok", loan_id, 0)
         /\ UNCHANGED <<loanTypes, schedule, ledger, today, calls>>

\* A slip in the bookkeeping: the disbursement is posted to the ledger as a
\* Cash credit of the loan's amount.
DisburseLoanPosting(loan_id, allowed) ==
    IF ~allowed
    THEN /\ ret' = Ret("disburse_loan", "warning", None, 0)
         /\ UNCHANGED <<loanTypes, loans, schedule, ledger, today, calls>>
    ELSE /\ loans' = Update(loans, [ApprovalStatus |-> "Disbursed",
                                    DisbursementDate |-> today],
                            "LoanID", loan_id)
         /\ ledger' = Append(ledger,
                             [EntryID |-> NextId(ledger),
                              Date |-> today,
                              Account |-> "Cash",
                              Debit |-> 0,
                              Credit |-> Sum(Column(FetchAll(loans, "LoanID",
                                                             loan_id),
                                                    "LoanAmount")),
                              Description |-> <<"Loan disbursement", loan_id>>])
         /\ ret' = Ret("disburse_loan", "ok", loan_id, 0)
         /\ UNCHANGED <<loanTypes, schedule, today, calls>>

\* disburse_loan(loan_id, permissions); allowed is permissions.get("Disburse", 0).
DisburseLoan(loan_id, allowed) ==
    IF ~allowed
    THEN /\ ret' = Ret("disburse_loan", "warning", None, 0)
         /\ UNCHANGED <<loanTypes, loans, schedule, ledger, today, calls>>
    ELSE /\ loans' = Update(loans, [ApprovalStatus |-> "Disbursed",
                                    DisbursementDate |-> today],
                            "LoanID", loan_id)
         /\ ret' = Ret("disburse_loan", "ok", loan_id, 0)
         /\ UNCHANGED <<loanTypes, schedule, ledger, today, calls>>

\* record_payment: status = "Paid" if paid >= row["AmountDue"] else "Partial".
PaymentStatus(paid, due) == IF paid >= due THEN "Paid" ELSE "Partial"

\* A slip in the second insert: the receivable row repeats the debit and
\* credits nothing.
LedgerRowsDebitTwice(entries, schedule_id, amount, day) ==
    << [EntryID |-> NextId(entries),
        Date |-> day,
        Account |-> "Cash",
        Debit |-> amount,
        Credit |-> 0,
        Description |-> <<"Loan repayment Schedule", schedule_id>>],
       [EntryID |-> NextId(entries) + 1,
        Date |-> day,
        Account |-> "Loan Receivable",
        Debit |-> amount,
        Credit |-> 0,
        Description |-> <<"Loan repayment Schedule", schedule_id>>] >>

\* record_payment: the two LedgerTbl rows, in the order inserted.
LedgerRows(entries, schedule_id, amount, day) ==
    << [EntryID |-> NextId(entries),
        Date |-> day,
        Account |-> "Cash",
        Debit |-> amount,
        Credit |-> 0,
        Description |-> <<"Loan repayment Schedule", schedule_id>>],
       [EntryID |-> NextId(entries) + 1,
        Date |-> day,
        Account |-> "Loan Receivable",
        Debit |-> 0,
        Credit |-> amount,
        Description |-> <<"Loan repayment Schedule", schedule_id>>] >>

\* A slip in the lookup: an id that matches no entry is taken for an entry
\* with nothing due and nothing paid, and the payment is posted.
RecordPaymentNoLookup(schedule_id, amount) ==
    LET rows == FetchAll(schedule, "ScheduleID", schedule_id)
        row == IF rows = <<>> THEN [AmountPaid |-> 0, AmountDue |-> 0]
                              ELSE rows[1]
        paid == row.AmountPaid + amount
        status == PaymentStatus(paid, row.AmountDue)
    IN  /\ Len(ledger) < 2 * MaxPayments
        /\ schedule' = Update(schedule,
                              [AmountPaid |-> paid, Status |-> status],
                              "ScheduleID", schedule_id)
        /\ ledger' = ledger \o LedgerRows(ledger, schedule_id, amount, today)
        /\ ret' = Ret("record_payment", "ok", schedule_id, amount)
        /\ UNCHANGED <<loanTypes, loans, today, calls>>

\* A slip in the bookkeeping: the payment is also taken off the TotalPayable
\* of the entry's loan.
RecordPaymentReducingTotal(schedule_id, amount) ==
    LET rows == FetchAll(schedule, "ScheduleID", schedule_id)
    IN  IF rows = <<>>
        THEN /\ ret' = Ret("record_payment", "IndexError", None, 0)
             /\ UNCHANGED <<loanTypes, loans, schedule, ledger, today, calls>>
        ELSE LET row == rows[1]
                 paid == row.AmountPaid + amount
                 status == PaymentStatus(paid, row.AmountDue)
                 owed == FetchAll(loans, "LoanID", row.LoanID)[1].TotalPayable
             IN  /\ Len(ledger) < 2 * MaxPayments
                 /\ schedule' = Update(schedule,
                                       [AmountPaid |-> paid, Status |-> status],
                                       "ScheduleID", schedule_id)
                 /\ loans' = Update(loans, [TotalPayable |-> owed - amount],
                                    "LoanID", row.LoanID)
                 /\ ledger' = ledger \o
                              LedgerRows(ledger, schedule_id, amount, today)
                 /\ ret' = Ret("record_payment", "ok", schedule_id, amount)
                 /\ UNCHANGED <<loanTypes, today, calls>>

\* A slip in the accumulation: the entry's AmountPaid is set to the amount
\* of the call instead of being raised by it.
RecordPaymentOverwriting(schedule_id, amount) ==
    LET rows == FetchAll(schedule, "ScheduleID", schedule_id)
    IN  IF rows = <<>>
        THEN /\ ret' = Ret("record_payment", "IndexError", None, 0)
             /\ UNCHANGED <<loanTypes, loans, schedule, ledger, today, calls>>
        ELSE LET row == rows[1]
                 paid == amount
                 status == PaymentStatus(paid, row.AmountDue)
             IN  /\ Len(ledger) < 2 * MaxPayments
                 /\ schedule' = Update(schedule,
                                       [AmountPaid |-> paid, Status |-> status],
                                       "ScheduleID", schedule_id)
                 /\ ledger' = ledger \o
                              LedgerRows(ledger, schedule_id, amount, today)
                 /\ ret' = Ret("record_payment", "ok", schedule_id, amount)
                 /\ UNCHANGED <<loanTypes, loans, today, calls>>

\* record_payment(schedule_id, amount).
RecordPayment(schedule_id, amount) ==
    LET rows == FetchAll(schedule, "ScheduleID", schedule_id)
    IN  IF rows = <<>>
        THEN \* fetch_all(...)[0] on an empty list
             /\ ret' = Ret("record_payment", "IndexError", None, 0)
             /\ UNCHANGED <<loanTypes, loans, schedule, ledger, today, calls>>
        ELSE LET row == rows[1]
                 paid == row.AmountPaid + amount
                 status == PaymentStatus(paid, row.AmountDue)
             IN  /\ Len(ledger) < 2 * MaxPayments
                 /\ schedule' = Update(schedule,
                                       [AmountPaid |-> paid, Status |-> status],
                                       "ScheduleID", schedule_id)
                 /\ ledger' = ledger \o
                              LedgerRows(ledger, schedule_id, amount, today)
                 /\ ret' = Ret("record_payment", "ok", schedule_id, amount)
                 /\ UNCHANGED <<loanTypes, loans, today, calls>>

\* record_payment(schedule_id, amount) when a write to the store raises
\* (sqlite3.OperationalError: the database is locked, the disk is full).
\* failed is the write that raises: 1 the UPDATE of the entry, 2 the INSERT
\* of the Cash row, 3 the INSERT of the Loan Receivable row.  DBManager.update
\* and DBManager.insert commit each statement, record_payment opens no
\* transaction and catches nothing: the writes before the failed one stay.
\* The store fails on the first payment attempted on an entry.
RecordPaymentFailing(schedule_id, amount, failed) ==
    LET rows == FetchAll(schedule, "ScheduleID", schedule_id)
        row == rows[1]
        paid == row.AmountPaid + amount
        status == PaymentStatus(paid, row.AmountDue)
        posted == LedgerRows(ledger, schedule_id, amount, today)
    IN  /\ rows # <<>>
        /\ row.Status = "Pending"
        /\ Len(ledger) < 2 * MaxPayments
        /\ schedule' = IF failed > 1
                       THEN Update(schedule,
                                   [AmountPaid |-> paid, Status |-> status],
                                   "ScheduleID", schedule_id)
                       ELSE schedule
        /\ ledger' = IF failed > 2 THEN Append(ledger, posted[1]) ELSE ledger
        /\ ret' = Ret("record_payment", "OperationalError", schedule_id, amount)
        /\ UNCHANGED <<loanTypes, loans, today, calls>>

\* A slip in the arrears: entries found overdue are marked as such in the
\* store.
GetLoanBalanceMarking(loan_id) ==
    LET rows == FetchAll(schedule, "LoanID", loan_id)
        owed == [k \in 1..Len(rows) |-> rows[k].AmountDue - rows[k].AmountPaid]
        late == SelectSeq(rows, LAMBDA r : /\ r.DueDate < today
                                           /\ r.AmountPaid < r.AmountDue)
        overdue == [k \in 1..Len(late) |->
                       late[k].AmountDue - late[k].AmountPaid]
    IN  /\ schedule' = [k \in 1..Len(schedule) |->
                           IF /\ schedule[k].LoanID = loan_id
                              /\ schedule[k].DueDate < today
                              /\ schedule[k].AmountPaid < schedule[k].AmountDue
                           THEN [schedule[k] EXCEPT !.Status = "Overdue"]
                           ELSE schedule[k]]
        /\ ret' = [Ret("get_loan_balance", "ok", loan_id, 0)
                      EXCEPT !.balance = Sum(owed), !.arrears = Sum(overdue)]
        /\ UNCHANGED <<loanTypes, loans, ledger, today, calls>>

\* A slip in the fetch: no "LoanID=?" condition, the sums run over every
\* entry of the table.
GetLoanBalanceAllLoans(loan_id) ==
    LET rows == schedule
        owed == [k \in 1..Len(rows) |-> rows[k].AmountDue - rows[k].AmountPaid]
        late == SelectSeq(rows, LAMBDA r : /\ r.DueDate < today
                                           /\ r.AmountPaid < r.AmountDue)
        overdue == [k \in 1..Len(late) |->
                       late[k].AmountDue - late[k].AmountPaid]
    IN  /\ ret' = [Ret("get_loan_balance", "ok", loan_id, 0)
                      EXCEPT !.balance = Sum(owed), !.arrears = Sum(overdue)]
        /\ UNCHANGED <<loanTypes, loans, schedule, ledger, today, calls>>

\* A slip in the comparison: an entry due today counts as overdue.
GetLoanBalanceDueToday(loan_id) ==
    LET rows == FetchAll(schedule, "LoanID", loan_id)
        owed == [k \in 1..Len(rows) |-> rows[k].AmountDue - rows[k].AmountPaid]
        late == SelectSeq(rows, LAMBDA r : /\ r.DueDate <= today
                                           /\ r.AmountPaid < r.AmountDue)
        overdue == [k \in 1..Len(late) |->
                       late[k].AmountDue - late[k].AmountPaid]
    IN  /\ ret' = [Ret("get_loan_balance", "ok", loan_id, 0)
                      EXCEPT !.balance = Sum(owed), !.arrears = Sum(overdue)]
        /\ UNCHANGED <<loanTypes, loans, schedule, ledger, today, calls>>

\* get_loan_balance(loan_id): (balance, arrears) over the loan's entries,
\* arrears over those due before today and not paid in full.
GetLoanBalance(loan_id) ==
    LET rows == FetchAll(schedule, "LoanID", loan_id)
        owed == [k \in 1..Len(rows) |-> rows[k].AmountDue - rows[k].AmountPaid]
        late == SelectSeq(rows, LAMBDA r : /\ r.DueDate < today
                                           /\ r.AmountPaid < r.AmountDue)
        overdue == [k \in 1..Len(late) |->
                       late[k].AmountDue - late[k].AmountPaid]
    IN  /\ ret' = [Ret("get_loan_balance", "ok", loan_id, 0)
                      EXCEPT !.balance = Sum(owed), !.arrears = Sum(overdue)]
        /\ UNCHANGED <<loanTypes, loans, schedule, ledger, today, calls>>

\* record_payment(schedule_id, amount) in session p, up to its fetch: the
\* row is read (loans.py:227-229); nothing is locked and no transaction is
\* open, so other sessions' calls may run before the update.
FetchForPayment(p, schedule_id, amount) ==
    LET rows == FetchAll(schedule, "ScheduleID", schedule_id)
    IN  /\ calls[p] = Idle
        /\ rows # <<>>
        /\ calls' = [calls EXCEPT ![p] =
                        [schedule_id |-> schedule_id, amount |-> amount,
                         AmountPaid |-> rows[1].AmountPaid,
                         AmountDue |-> rows[1].AmountDue]]
        /\ UNCHANGED <<loanTypes, loans, schedule, ledger, today, ret>>

\* record_payment in session p, from the update on (loans.py:231-253): paid
\* and status come from the row fetched earlier.
WritePayment(p) ==
    LET call == calls[p]
        paid == call.AmountPaid + call.amount
        status == PaymentStatus(paid, call.AmountDue)
    IN  /\ call # Idle
        /\ Len(ledger) < 2 * MaxPayments
        /\ schedule' = Update(schedule,
                              [AmountPaid |-> paid, Status |-> status],
                              "ScheduleID", call.schedule_id)
        /\ ledger' = ledger \o
                     LedgerRows(ledger, call.schedule_id, call.amount, today)
        /\ ret' = Ret("record_payment", "ok", call.schedule_id, call.amount)
        /\ calls' = [calls EXCEPT ![p] = Idle]
        /\ UNCHANGED <<loanTypes, loans, today>>

\* The amounts record_payment is called with for entry schedule_id: the
\* fixed ones and the entry's own AmountDue.
AmountsFor(schedule_id) ==
    PayAmounts \cup
    {schedule[k].AmountDue : k \in {j \in 1..Len(schedule) : j = schedule_id}}

\* The ids record_payment is called with: the first entries' and the one
\* after the last entry, which no entry has.
ScheduleIds == (1..MaxSchedId) \cup {NextId(schedule)}

LoanData ==
    [LoanType : LoanTypeInputs, LoanAmount : LoanAmounts,
     StartDate : StartDates, LoanMethod : LoanMethods]

Next ==
    \/ \E loan_data \in LoanData : CreateLoan(loan_data)
    \/ \E loan_id \in 1..Len(loans) : GenerateScheduleFor(loan_id)
    \/ \E loan_id \in 1..(Len(loans) + 1), allowed \in BOOLEAN :
           ApproveLoan(loan_id, allowed)
    \/ \E loan_id \in 1..(Len(loans) + 1), allowed \in BOOLEAN :
           DisburseLoan(loan_id, allowed)
    \/ \E schedule_id \in ScheduleIds :
           \E amount \in AmountsFor(schedule_id) :
               RecordPayment(schedule_id, amount)

Spec == Init /\ [][Next]_vars

\* Loan creation and schedule generation alone, over every seeded product
\* and more amounts (in cents: 400.00, 77.77, 12.34 and 0.07).
ScheduleAmounts == {40000, 7777, 1234, 7}

ScheduleLoanData ==
    [LoanType : {Defaults[k][1] : k \in 1..Len(Defaults)} \cup {"NoSuchType"},
     LoanAmount : ScheduleAmounts,
     StartDate : StartDates, LoanMethod : LoanMethods]

NextSchedule ==
    \/ \E loan_data \in ScheduleLoanData : CreateLoan(loan_data)
    \/ \E loan_id \in 1..Len(loans) : GenerateScheduleFor(loan_id)

SpecSchedule == Init /\ [][NextSchedule]_vars

\* Loan creation, schedule generation and payment posting, without the
\* approval workflow, on the two shortest seeded products.
PaymentLoanData ==
    [LoanType : {"Emergency", "Education"}, LoanAmount : LoanAmounts,
     StartDate : StartDates, LoanMethod : LoanMethods]

NextPayments ==
    \/ \E loan_data \in PaymentLoanData : CreateLoan(loan_data)
    \/ \E loan_id \in 1..Len(loans) : GenerateScheduleFor(loan_id)
    \/ \E schedule_id \in ScheduleIds :
           \E amount \in AmountsFor(schedule_id) :
               RecordPayment(schedule_id, amount)

SpecPayments == Init /\ [][NextPayments]_vars

\* Loan creation, schedule generation and the approval workflow, without
\* payments, on one seeded product; the amounts (in cents) include 0.00 and
\* -10.00.
WorkflowLoanData ==
    [LoanType : {"Emergency", "NoSuchType"},
     LoanAmount : LoanAmounts \cup {0, -1000},
     StartDate : StartDates, LoanMethod : LoanMethods]

NextWorkflow ==
    \/ \E loan_data \in WorkflowLoanData : CreateLoan(loan_data)
    \/ \E loan_id \in 1..Len(loans) : GenerateScheduleFor(loan_id)
    \/ \E loan_id \in 1..(Len(loans) + 1), allowed \in BOOLEAN :
           ApproveLoan(loan_id, allowed)
    \/ \E loan_id \in 1..(Len(loans) + 1), allowed \in BOOLEAN :
           DisburseLoan(loan_id, allowed)

SpecWorkflow == Init /\ [][NextWorkflow]_vars

\* The catalog under an administrator's edits of the Emergency row
\* (deactivated, its rate changed, renamed), restarts of the application and
\* loan creation for the old and the new name.
EditedTypeIds == {7}
CellEdits ==
    {<<"Active", 0>>, <<"InterestRate", 12>>, <<"LoanName", "Legacy">>}

CatalogLoanData ==
    [LoanType : {"Emergency", "Legacy"}, LoanAmount : LoanAmounts,
     StartDate : StartDates, LoanMethod : LoanMethods]

NextCatalog ==
    \/ Reopen
    \/ \E pk_value \in EditedTypeIds, edit \in CellEdits :
           InlineUpdate(pk_value, edit[1], edit[2])
    \/ \E loan_data \in CatalogLoanData : CreateLoan(loan_data)
    \/ \E loan_id \in 1..Len(loans) : GenerateScheduleFor(loan_id)

SpecCatalog == Init /\ [][NextCatalog]_vars

\* Every operation of the engine on one loan: the 10.00 Flat Emergency
\* loan, approved and disbursed by permitted callers, paid and queried.
BalanceLoanData ==
    [LoanType : {"Emergency"}, LoanAmount : {1000},
     StartDate : StartDates, LoanMethod : {"Flat"}]

NextBalance ==
    \/ \E loan_data \in BalanceLoanData : CreateLoan(loan_data)
    \/ \E loan_id \in 1..Len(loans) : GenerateScheduleFor(loan_id)
    \/ \E loan_id \in 1..Len(loans) : ApproveLoan(loan_id, TRUE)
    \/ \E loan_id \in 1..Len(loans) : DisburseLoan(loan_id, TRUE)
    \/ \E schedule_id \in ScheduleIds :
           \E amount \in AmountsFor(schedule_id) :
               RecordPayment(schedule_id, amount)
    \/ \E loan_id \in 1..(Len(loans) + 1) : GetLoanBalance(loan_id)

SpecBalance == Init /\ [][NextBalance]_vars

\* Payments and balance reads on the 10.00 Flat Emergency loan started on
\* day 1 (first installment overdue today) or on day 10 (first installment
\* due today).
ArrearsLoanData ==
    [LoanType : {"Emergency"}, LoanAmount : {1000},
     StartDate : {1, 10}, LoanMethod : {"Flat"}]

NextArrears ==
    \/ \E loan_data \in ArrearsLoanData : CreateLoan(loan_data)
    \/ \E loan_id \in 1..Len(loans) : GenerateScheduleFor(loan_id)
    \/ \E schedule_id \in ScheduleIds :
           \E amount \in AmountsFor(schedule_id) :
               RecordPayment(schedule_id, amount)
    \/ \E loan_id \in 1..(Len(loans) + 1) : GetLoanBalance(loan_id)

SpecArrears == Init /\ [][NextArrears]_vars

\* The catalog under the administrator's form: a product Holiday added
\* with the id after the seeded ones, rows deleted, and loans created on
\* the added and on a seeded product.
FormRecords ==
    [LoanTypeID : {8}, LoanName : {"Holiday"}, InterestRate : {0, 8},
     DurationMonths : {0, 6}, Active : {0, 1}]

AdminLoanData ==
    [LoanType : {"Holiday", "Emergency"}, LoanAmount : {1000},
     StartDate : StartDates, LoanMethod : LoanMethods]

NextAdmin ==
    \/ \E data \in FormRecords : SaveRecord(data)
    \/ \E pk_value \in {7, 8} : DeleteRecord(pk_value)
    \/ \E loan_data \in AdminLoanData : CreateLoan(loan_data)
    \/ \E loan_id \in 1..Len(loans) : GenerateScheduleFor(loan_id)

SpecAdmin == Init /\ [][NextAdmin]_vars

\* Payments on that loan from two sessions whose calls may overlap.
NextInterleaved ==
    \/ \E loan_data \in BalanceLoanData : CreateLoan(loan_data)
    \/ \E loan_id \in 1..Len(loans) : GenerateScheduleFor(loan_id)
    \/ \E p \in Sessions, schedule_id \in 1..MaxSchedId :
           \E amount \in AmountsFor(schedule_id) :
               FetchForPayment(p, schedule_id, amount)
    \/ \E p \in Sessions : WritePayment(p)

SpecInterleaved == Init /\ [][NextInterleaved]_vars

\* Payments on that loan over a store whose writes may fail.
FailedWrites == 1..3

NextStorageFaults ==
    \/ \E loan_data \in BalanceLoanData : CreateLoan(loan_data)
    \/ \E loan_id \in 1..Len(loans) : GenerateScheduleFor(loan_id)
    \/ \E schedule_id \in ScheduleIds :
           \E amount \in AmountsFor(schedule_id) :
               RecordPayment(schedule_id, amount)
    \/ \E schedule_id \in ScheduleIds, failed \in FailedWrites :
           \E amount \in AmountsFor(schedule_id) :
               RecordPaymentFailing(schedule_id, amount, failed)

SpecStorageFaults == Init /\ [][NextStorageFaults]_vars

-----------------------------------------------------------------------------
(* Properties.                                                             *)

\* The schedule entries of a loan: fetch_all(SCHEDULE_TABLE, "LoanID=?").
ScheduleOf(loan_id) == FetchAll(schedule, "LoanID", loan_id)

\* C1: once a loan's approvalStatus has been Disbursed, no approve or
\* disburse call (with any permissions) makes it Approved or Pending again.
C1_NeverRegresses ==
    [][\A k \in 1..Len(loans) :
          loans[k].ApprovalStatus = "Disbursed"
          => loans'[k].ApprovalStatus = "Disbursed"]_vars

\* C2: the only approvalStatus transitions an operation performs are
\* Pending to Approved and Approved to Disbursed; in particular no loan
\* becomes Disbursed in a step that found it Pending.
C2_OnlyLegalTransitions ==
    [][\A k \in 1..Len(loans) :
          loans'[k].ApprovalStatus # loans[k].ApprovalStatus
          => \/ /\ loans[k].ApprovalStatus = "Pending"
                /\ loans'[k].ApprovalStatus = "Approved"
             \/ /\ loans[k].ApprovalStatus = "Approved"
                /\ loans'[k].ApprovalStatus = "Disbursed"]_vars

\* C3: in every reachable state (so also right after a create_loan for an
\* active loan type) each loan has exactly DurationMonths schedule entries
\* carrying its LoanID.
C3_ScheduleComplete ==
    \A k \in 1..Len(loans) :
        Len(ScheduleOf(loans[k].LoanID)) = loans[k].DurationMonths

\* C4: create_loan is all-or-nothing: when its schedule generation raised,
\* the loan store holds no row for that loan and the schedule store no
\* entry for it.
C4_CreateAllOrNothing ==
    (ret.op = "create_loan" /\ ret.outcome \notin {"ok", "warning"})
    => /\ FetchAll(loans, "LoanID", ret.id) = <<>>
       /\ ScheduleOf(ret.id) = <<>>

\* C5: for every Flat loan with principal > 0, months > 0 and rate >= 0 whose
\* schedule is stored, the sum of AmountDue over its entries is the loan's
\* TotalPayable within 1 cent times DurationMonths.
C5_FlatDueSumsToTotal ==
    \A k \in 1..Len(loans) :
        LET loan == loans[k]
            rows == ScheduleOf(loan.LoanID)
        IN  (/\ loan.LoanMethod = "Flat"
             /\ loan.LoanAmount > 0
             /\ loan.DurationMonths > 0
             /\ loan.InterestRate >= 0
             /\ rows # <<>>)
            => Abs(Sum(Column(rows, "AmountDue")) - loan.TotalPayable)
                   <= loan.DurationMonths

C7_DueIsPrincipalPlusInterest ==
    \A k \in 1..Len(schedule) :
        schedule[k].AmountDue = schedule[k].Principal + schedule[k].Interest

\* The status rule of the data model.
StatusRule(paid, due) ==
    IF paid >= due THEN "Paid" ELSE IF paid > 0 THEN "Partial" ELSE "Pending"

\* C8: in every reachable state each schedule entry's Status is Paid iff
\* AmountPaid >= AmountDue, otherwise Partial iff AmountPaid > 0, otherwise
\* Pending.
C8_StatusFollowsRule ==
    \A k \in 1..Len(schedule) :
        schedule[k].Status =
            StatusRule(schedule[k].AmountPaid, schedule[k].AmountDue)

\* C9: no step decreases the AmountPaid of a schedule entry.
C9_AmountPaidMonotonic ==
    [][\A k \in 1..Len(schedule) :
          schedule'[k].AmountPaid >= schedule[k].AmountPaid]_vars

\* C10: each successful record_payment(schedule_id, amount) leaves the ledger
\* as it was plus exactly two entries, (Cash, debit amount, credit 0) then
\* (Loan Receivable, debit 0, credit amount), both described by schedule_id;
\* and a payment of AmountDue on an entry with nothing paid leaves it Paid.
C10_PaymentPostsTwoEntries ==
    [][(ret'.op = "record_payment" /\ ret'.outcome = "ok")
       => /\ Len(ledger') = Len(ledger) + 2
          /\ SubSeq(ledger', 1, Len(ledger)) = ledger
          /\ LET cash == ledger'[Len(ledger) + 1]
                 recv == ledger'[Len(ledger) + 2]
             IN  /\ cash.Account = "Cash"
                 /\ cash.Debit = ret'.amount
                 /\ cash.Credit = 0
                 /\ recv.Account = "Loan Receivable"
                 /\ recv.Debit = 0
                 /\ recv.Credit = ret'.amount
                 /\ cash.Description[2] = ret'.id
                 /\ recv.Description[2] = ret'.id
          /\ \A k \in 1..Len(schedule) :
                (/\ schedule[k].ScheduleID = ret'.id
                 /\ schedule[k].AmountPaid = 0
                 /\ ret'.amount = schedule[k].AmountDue)
                => schedule'[k].Status = "Paid"]_vars

\* C10 witness: the first payment posted, of exactly the entry's AmountDue.
C10_Witness ==
    /\ ret.op = "record_payment"
    /\ ret.outcome = "ok"
    /\ Len(ledger) = 2
    /\ \E k \in 1..Len(schedule) :
          /\ schedule[k].ScheduleID = ret.id
          /\ ret.amount = schedule[k].AmountDue
          /\ schedule[k].AmountPaid = schedule[k].AmountDue
          /\ schedule[k].Status = "Paid"

\* C11: in every reachable state, the one a failed write leaves part-way
\* through record_payment included, the Debit column of the ledger and its
\* Credit column have the same sum.
C11_LedgerBalanced ==
    Sum(Column(ledger, "Debit")) = Sum(Column(ledger, "Credit"))

\* C12: an approve_loan without the Approve permission and a disburse_loan
\* without the Disburse permission (the key false or missing) leave every
\* stored record as it was: the loans, with their ApprovalStatus and
\* DisbursementDate, the schedule, the ledger and the catalog.
C12_DeniedChangesNothing ==
    [][(ret'.op \in {"approve_loan", "disburse_loan"}
        /\ ret'.outcome = "warning")
       => UNCHANGED <<loanTypes, loans, schedule, ledger>>]_vars

\* C12 witness: a disbursement refused on a stored loan that is Approved and
\* not yet disbursed, its schedule stored.
C12_Witness ==
    /\ ret.op = "disburse_loan"
    /\ ret.outcome = "warning"
    /\ schedule # <<>>
    /\ \E k \in 1..Len(loans) :
          /\ loans[k].ApprovalStatus = "Approved"
          /\ loans[k].DisbursementDate = None

\* C13: a create_loan whose LoanType names no catalog row, or only an
\* inactive one, creates nothing: a step adds a loan row only if the catalog
\* holds an active row of the loan's LoanType, and a refused create_loan
\* leaves loans, schedule and ledger as they were.
C13_NoLoanWithoutActiveType ==
    [][/\ \A k \in (Len(loans) + 1)..Len(loans') :
             \E t \in 1..Len(loanTypes) :
                 /\ loanTypes[t].LoanName = loans'[k].LoanType
                 /\ loanTypes[t].Active = 1
       /\ (ret'.op = "create_loan" /\ ret'.outcome = "warning")
              => UNCHANGED <<loans, schedule, ledger>>]_vars

\* C13 witness: a create_loan refused for the deactivated product (renamed
\* Legacy; Emergency, the other name asked for, is seeded again and active)
\* with a loan and its schedule in the store.
C13_Witness ==
    /\ ret.op = "create_loan"
    /\ ret.outcome = "warning"
    /\ loans # <<>>
    /\ schedule # <<>>
    /\ \E t \in 1..Len(loanTypes) :
          loanTypes[t].LoanName = "Legacy" /\ loanTypes[t].Active = 0
    /\ \E t \in 1..Len(loanTypes) :
          loanTypes[t].LoanName = "Emergency" /\ loanTypes[t].Active = 1

\* C14: a record_payment whose schedule_id matches no entry fails and
\* changes neither the schedule nor the ledger: a raised lookup leaves both
\* as they were, and every ledger row a record_payment posts is described
\* by the id of an entry of the schedule.
C14_UnknownEntryPostsNothing ==
    [][ret'.op = "record_payment"
       => /\ ret'.outcome = "IndexError" => UNCHANGED <<schedule, ledger>>
          /\ \A j \in (Len(ledger) + 1)..Len(ledger') :
                \E k \in 1..Len(schedule) :
                    schedule[k].ScheduleID = ledger'[j].Description[2]]_vars

\* C14 witness: the lookup raised with entries in the schedule and a
\* payment already in the ledger.
C14_Witness ==
    /\ ret.op = "record_payment"
    /\ ret.outcome = "IndexError"
    /\ schedule # <<>>
    /\ ledger # <<>>

\* C15: an approve_loan or disburse_loan that had the permission completes
\* normally only for a loan_id the loan store holds; for any other it
\* reports a failure.
C15_MissingLoanReported ==
    (ret.op \in {"approve_loan", "disburse_loan"} /\ ret.outcome = "ok")
    => FetchAll(loans, "LoanID", ret.id) # <<>>

\* C16: every loan in the store has LoanAmount > 0 (a create_loan with a
\* zero or negative LoanAmount is refused and stores nothing).
C16_PrincipalPositive ==
    \A k \in 1..Len(loans) : loans[k].LoanAmount > 0

\* C17: in every reachable state, those after a create_loan that raised
\* part-way included, the LoanID of every schedule entry is the LoanID of a
\* row of the loan store.
C17_NoOrphanEntries ==
    \A k \in 1..Len(schedule) :
        FetchAll(loans, "LoanID", schedule[k].LoanID) # <<>>

\* C17 witness: a loan left by a create_loan that raised part-way, with its
\* entries stored by generate_schedule.
C17_Witness ==
    /\ ret.op = "generate_schedule"
    /\ \E k \in 1..Len(loans) : ScheduleOf(loans[k].LoanID) # <<>>

\* C18: no step (approve_loan, disburse_loan, record_payment and
\* get_loan_balance among them) changes the TotalPayable, LoanAmount,
\* InterestRate or DurationMonths of a stored loan.
C18_LoanTermsFixed ==
    [][\A k \in 1..Len(loans) :
          /\ loans'[k].TotalPayable = loans[k].TotalPayable
          /\ loans'[k].LoanAmount = loans[k].LoanAmount
          /\ loans'[k].InterestRate = loans[k].InterestRate
          /\ loans'[k].DurationMonths = loans[k].DurationMonths]_vars

\* C18 witness: a disbursed loan with a payment posted and its balance
\* just read, its TotalPayable the one create_loan computed.
C18_Witness ==
    /\ ret.op = "get_loan_balance"
    /\ ledger # <<>>
    /\ \E k \in 1..Len(loans) :
          /\ loans[k].ApprovalStatus = "Disbursed"
          /\ ret.id = loans[k].LoanID
          /\ ret.balance < loans[k].TotalPayable
          /\ loans[k].TotalPayable =
                 TotalPayable(loans[k].LoanAmount, loans[k].InterestRate,
                              loans[k].DurationMonths, loans[k].LoanMethod)

\* C19: seeding the defaults writes over nothing and is idempotent: a
\* start of the application leaves every row the catalog held as it was
\* (rate, duration and Active flag of an edited or deactivated default
\* included), and a second start right after one changes nothing.
C19_SeedingKeepsRows ==
    [][ret'.op = "init"
       => /\ Len(loanTypes') >= Len(loanTypes)
          /\ SubSeq(loanTypes', 1, Len(loanTypes)) = loanTypes
          /\ ret.op = "init" => loanTypes' = loanTypes
          /\ SeedDefaultLoanTypes(loanTypes') = loanTypes']_vars

\* C19 witness: the application started on a catalog whose Emergency row an
\* administrator gave another rate and deactivated; the row is as edited.
C19_Witness ==
    /\ ret.op = "init"
    /\ \E t \in 1..Len(loanTypes) :
          /\ loanTypes[t].LoanName = "Emergency"
          /\ loanTypes[t].InterestRate = 12
          /\ loanTypes[t].Active = 0

C30_NoLostPayment ==
    [][(ret'.op = "record_payment" /\ ret'.outcome = "ok"
        /\ Len(ledger') > Len(ledger))
       => \A k \in 1..Len(schedule) :
             schedule[k].ScheduleID = ret'.id
             => /\ schedule'[k].AmountPaid =
                       schedule[k].AmountPaid + ret'.amount
                /\ schedule'[k].Status =
                       PaymentStatus(schedule'[k].AmountPaid,
                                     schedule[k].AmountDue)]_vars

\* C23: every catalog row has DurationMonths > 0 and InterestRate >= 0, no
\* step of the administrator removes a row, and no create_loan raises a
\* division by zero.
C23_CatalogValid ==
    /\ [](/\ \A t \in 1..Len(loanTypes) :
               /\ loanTypes[t].DurationMonths > 0
               /\ loanTypes[t].InterestRate >= 0
          /\ ret.outcome # "ZeroDivisionError")
    /\ [][Len(loanTypes') >= Len(loanTypes)]_vars

\* C21: the balance get_loan_balance(loan_id) returns is the sum of AmountDue
\* minus the sum of AmountPaid over the entries whose LoanID is loan_id and
\* no others, which is the sum of AmountDue minus every amount posted to
\* those entries (the Cash debits of the ledger described by their ids).
C21_BalanceIsDueLessPaid ==
    ret.op = "get_loan_balance"
    => LET mine == {k \in 1..Len(schedule) : schedule[k].LoanID = ret.id}
           rows == SelectSeq(schedule, LAMBDA r : r.LoanID = ret.id)
           posted == SelectSeq(ledger, LAMBDA e :
                         /\ e.Account = "Cash"
                         /\ \E k \in mine :
                               schedule[k].ScheduleID = e.Description[2])
       IN  /\ ret.balance = Sum(Column(rows, "AmountDue"))
                              - Sum(Column(rows, "AmountPaid"))
           /\ ret.balance = Sum(Column(rows, "AmountDue"))
                              - Sum(Column(posted, "Debit"))

\* C21 witness: the balance of a loan read after two payments on its
\* entries, while the id after the last loan's has no entry.
C21_Witness ==
    /\ ret.op = "get_loan_balance"
    /\ Len(ledger) = 4
    /\ \E k \in 1..Len(schedule) :
          /\ schedule[k].LoanID = ret.id
          /\ schedule[k].AmountPaid > 0
    /\ ret.balance > 0

\* What an entry adds to the arrears on day d.
Shortfall(row, d) ==
    IF row.DueDate < d /\ row.AmountPaid < row.AmountDue
    THEN row.AmountDue - row.AmountPaid
    ELSE 0

\* C22: the arrears get_loan_balance returns are the sum, over the loan's
\* entries, of AmountDue - AmountPaid for an entry due strictly before today
\* and not paid in full, and of nothing for any other entry (one due today
\* or later, one paid in full or overpaid).
C22_ArrearsArePastDueShortfalls ==
    ret.op = "get_loan_balance"
    => LET rows == SelectSeq(schedule, LAMBDA r : r.LoanID = ret.id)
       IN  ret.arrears =
               Sum([k \in 1..Len(rows) |-> Shortfall(rows[k], today)])

\* C22 witness: arrears of 0 read for a loan whose first entry is due
\* today and not paid in full and whose second entry is overpaid.
C22_Witness ==
    /\ ret.op = "get_loan_balance"
    /\ ret.arrears = 0
    /\ \E k \in 1..Len(schedule) :
          /\ schedule[k].LoanID = ret.id
          /\ schedule[k].DueDate = today
          /\ schedule[k].AmountPaid < schedule[k].AmountDue
    /\ \E k \in 1..Len(schedule) :
          /\ schedule[k].LoanID = ret.id
          /\ schedule[k].AmountPaid > schedule[k].AmountDue

\* C24: for every Reduce loan with principal > 0 and months > 0, in every
\* state from the one create_loan leaves on, the AmountDue of its schedule
\* entries sum to its TotalPayable within 1 cent times DurationMonths.
C24_ReduceDueSumsToTotal ==
    \A k \in 1..Len(loans) :
        LET loan == loans[k]
            rows == ScheduleOf(loan.LoanID)
        IN  (/\ loan.LoanMethod = "Reduce"
             /\ loan.LoanAmount > 0
             /\ loan.DurationMonths > 0)
            => Abs(Sum(Column(rows, "AmountDue")) - loan.TotalPayable)
                   <= loan.DurationMonths

\* The same relation on the loans whose schedule is stored.
ReduceStoredDueSumsToTotal ==
    \A k \in 1..Len(loans) :
        LET loan == loans[k]
            rows == ScheduleOf(loan.LoanID)
        IN  (/\ loan.LoanMethod = "Reduce"
             /\ loan.LoanAmount > 0
             /\ loan.DurationMonths > 0
             /\ rows # <<>>)
            => Abs(Sum(Column(rows, "AmountDue")) - loan.TotalPayable)
                   <= loan.DurationMonths

C26_ApproveIdempotent ==
    [][(/\ ret'.op = "approve_loan"
        /\ ret'.outcome # "warning"
        /\ \E k \in 1..Len(loans) :
              /\ loans[k].LoanID = ret'.id
              /\ loans[k].ApprovalStatus = "Approved")
       => /\ ret'.outcome = "ok"
          /\ loans' = loans]_vars

\* C26 witness: an approval that completed on a loan now Approved and
\* never disbursed.
C26_Witness ==
    /\ ret.op = "approve_loan"
    /\ ret.outcome = "ok"
    /\ \E k \in 1..Len(loans) :
          /\ loans[k].LoanID = ret.id
          /\ loans[k].ApprovalStatus = "Approved"
          /\ loans[k].DisbursementDate = None

\* C27: the ledger is append-only: no step changes or removes an entry it
\* holds, and only a record_payment adds entries.
C27_LedgerAppendOnly ==
    [][/\ Len(ledger') >= Len(ledger)
       /\ SubSeq(ledger', 1, Len(ledger)) = ledger
       /\ Len(ledger') > Len(ledger) => ret'.op = "record_payment"]_vars

\* C27 witness: a disbursement and a balance read on a loan after a payment
\* was posted, the two entries of the payment in the ledger.
C27_Witness ==
    /\ ret.op = "get_loan_balance"
    /\ Len(ledger) = 2
    /\ ledger[1].Account = "Cash"
    /\ ledger[2].Account = "Loan Receivable"
    /\ \E k \in 1..Len(loans) : loans[k].ApprovalStatus = "Disbursed"

\* C28: in every state between complete operations the Cash debits of the
\* ledger sum to the AmountPaid of all schedule entries.
C28_CashMatchesAmountPaid ==
    Sum(Column(SelectSeq(ledger, LAMBDA e : e.Account = "Cash"), "Debit"))
        = Sum(Column(schedule, "AmountPaid"))

\* C28 witness: two payments posted on the same entry.
C28_Witness ==
    /\ Len(ledger) = 4
    /\ ledger[1].Description = ledger[3].Description
    /\ ledger[1].Debit > 0
    /\ ledger[3].Debit > 0
    /\ Sum(Column(schedule, "AmountPaid")) = ledger[1].Debit + ledger[3].Debit

\* C29: a loan has a DisbursementDate exactly when its ApprovalStatus is
\* Disbursed.
C29_DateIffDisbursed ==
    \A k \in 1..Len(loans) :
        (loans[k].DisbursementDate # None)
            <=> (loans[k].ApprovalStatus = "Disbursed")

=============================================================================
